---------------------------- MODULE Spec2Model ----------------------------
(***************************************************************************)
(* A model of notebooks/utils/_utils.py: the infix-implies rewriter        *)
(* (rewrite_implies), the missing-value guard (guard_none_comparisons)     *)
(* and the sandboxed evaluator (safe_eval_expr).                           *)
(*                                                                         *)
(* Text is a sequence of one-character strings.  A dict is a sequence of   *)
(* <<key, value>> pairs with distinct keys, in insertion order.            *)
(***************************************************************************)
EXTENDS Integers, Sequences, FiniteSets, TLC

VARIABLES pc, input, expr, first, bindings, env, tree, todo, visited,
          evaluated, outcome

vars == <<pc, input, expr, first, bindings, env, tree, todo, visited,
          evaluated, outcome>>

(***************************************************************************)
(* Characters and text                                                     *)
(***************************************************************************)

\* The characters the regex class \s matches (those that occur in inputs).
Whitespace == {" ", "\t", "\n"}

\* The regex "." matches every character but the line feed.
IsDot(c) == c # "\n"

\* The literal keyword of the pattern.
Keyword == <<"i", "m", "p", "l", "i", "e", "s">>

RECURSIVE Flatten(_)
Flatten(parts) ==
    IF parts = <<>> THEN <<>> ELSE Head(parts) \o Flatten(Tail(parts))

\* Every sequence over S of length at most n.
SeqsUpTo(S, n) == UNION {[1..k -> S] : k \in 0..n}

(***************************************************************************)
(* rewrite_implies: pattern = r"(.+?)\s+implies\s+(.+)"                    *)
(***************************************************************************)

\* Length of the longest run of whitespace of s that starts at index i.
RECURSIVE SpaceRun(_, _)
SpaceRun(s, i) ==
    IF i > Len(s) \/ s[i] \notin Whitespace THEN 0 ELSE 1 + SpaceRun(s, i + 1)

HasKeywordAt(s, p) ==
    /\ p + Len(Keyword) - 1 <= Len(s)
    /\ SubSeq(s, p, p + Len(Keyword) - 1) = Keyword

\* Last index of the run of "." characters of s that starts at index j.
RECURSIVE DotRunEnd(_, _)
DotRunEnd(s, j) ==
    IF j + 1 <= Len(s) /\ IsDot(s[j + 1]) THEN DotRunEnd(s, j + 1) ELSE j

\* Where group 2 starts when the second \s+ starts at q, or 0.  \s+ is
\* greedy and gives characters back until (.+) can take one character.
Group2Start(s, q) ==
    LET w == SpaceRun(s, q)
        ok == {t \in 1..w : q + t <= Len(s) /\ IsDot(s[q + t])}
    IN  IF ok = {} THEN 0
        ELSE q + (CHOOSE t \in ok : \A u \in ok : u <= t)

\* With group 1 = s[st..i-1], the rest of the pattern, \s+implies\s+(.+),
\* matches from index i.
MatchesFrom(s, st, i) ==
    /\ SpaceRun(s, i) >= 1
    /\ HasKeywordAt(s, i + SpaceRun(s, i))
    /\ Group2Start(s, i + SpaceRun(s, i) + Len(Keyword)) > 0

\* The least i > st with MatchesFrom(s, st, i), or 0: group 1 is lazy, and
\* cannot grow across a line feed.
RECURSIVE Group1End(_, _, _)
Group1End(s, st, i) ==
    IF i > Len(s) \/ ~IsDot(s[i - 1]) THEN 0
    ELSE IF MatchesFrom(s, st, i) THEN i
    ELSE Group1End(s, st, i + 1)

\* The least start index from which the pattern matches, or 0.
RECURSIVE MatchStart(_, _)
MatchStart(s, st) ==
    IF st > Len(s) THEN 0
    ELSE IF Group1End(s, st, st + 1) > 0 THEN st
    ELSE MatchStart(s, st + 1)

\* re.search(pattern, expr): the leftmost match, its group 1 the shortest.
PatternSearch(s) ==
    LET st == MatchStart(s, 1)
    IN  IF st = 0 THEN [found |-> FALSE]
        ELSE LET i  == Group1End(s, st, st + 1)
                 g2 == Group2Start(s, i + SpaceRun(s, i) + Len(Keyword))
             IN  [found |-> TRUE, start |-> st, g1end |-> i - 1,
                  g2start |-> g2, end |-> DotRunEnd(s, g2)]

\* PatternSub with the template r"implies (\1, \2)": a space after the name.
PatternSubSpaced(s) ==
    LET m == PatternSearch(s)
    IN  IF ~m.found THEN s
        ELSE SubSeq(s, 1, m.start - 1)
             \o Keyword \o <<" ", "(">>
             \o SubSeq(s, m.start, m.g1end)
             \o <<",", " ">>
             \o SubSeq(s, m.g2start, m.end)
             \o <<")">>
             \o SubSeq(s, m.end + 1, Len(s))

\* re.sub(pattern, r"implies(\1, \2)", expr, count=1)
PatternSub(s) ==
    LET m == PatternSearch(s)
    IN  IF ~m.found THEN s
        ELSE SubSeq(s, 1, m.start - 1)
             \o Keyword \o <<"(">>
             \o SubSeq(s, m.start, m.g1end)
             \o <<",", " ">>
             \o SubSeq(s, m.g2start, m.end)
             \o <<")">>
             \o SubSeq(s, m.end + 1, Len(s))


(***************************************************************************)
(* Values, and dicts in insertion order                                    *)
(***************************************************************************)

NoneV == [t |-> "none"]
NaN == [t |-> "nan"]
IntV(i) == [t |-> "int", i |-> i]
BoolV(b) == [t |-> "bool", b |-> b]
StrV(s) == [t |-> "str", s |-> s]
FuncV(f) == [t |-> "func", f |-> f]
\* A float that is not NaN, as the fraction n/d in lowest terms, d > 0.
FloatV(n, d) == [t |-> "float", n |-> n, d |-> d]
\* A raised exception, in the place of a value.
Exc(e) == [t |-> "exc", e |-> e]

Keys(d) == {d[j][1] : j \in 1..Len(d)}

HasKey(d, k) == k \in Keys(d)

DictGet(d, k) == d[CHOOSE j \in 1..Len(d) : d[j][1] = k][2]

\* d[k] = v: a key the dict holds keeps its place, a new key goes last.
DictSet(d, k, v) ==
    IF HasKey(d, k)
    THEN [j \in 1..Len(d) |-> IF d[j][1] = k THEN <<k, v>> ELSE d[j]]
    ELSE Append(d, <<k, v>>)

\* DictMerge that drops its first dict: full_env = {**env}.
DictMergeRight(a, b) == b

\* {**a, **b}
RECURSIVE DictMerge(_, _)
DictMerge(a, b) ==
    IF b = <<>> THEN a
    ELSE DictMerge(DictSet(a, Head(b)[1], Head(b)[2]), Tail(b))

(***************************************************************************)
(* The module's constants                                                  *)
(***************************************************************************)

ALLOWED_VARS ==
    <<"n", "m", "is_connected", "diameter", "num_triangles", "max_degree",
      "avg_degree", "density">>

ALLOWED_FUNCS ==
    << <<"abs", FuncV("abs")>>, <<"min", FuncV("min")>>,
       <<"max", FuncV("max")>>, <<"implies", FuncV("implies")>> >>

ALLOWED_NAMES ==
    {ALLOWED_VARS[j] : j \in 1..Len(ALLOWED_VARS)} \cup Keys(ALLOWED_FUNCS)

ALLOWED_NODES ==
    {"Expression",
     "BoolOp", "BinOp", "UnaryOp", "Compare",
     "Name", "Load", "Constant",
     "And", "Or", "Not",
     "Add", "Sub", "Mult", "Div",
     "USub",
     "Eq", "NotEq", "Lt", "LtE", "Gt", "GtE",
     "Call",
     "Is", "IsNot"}

(***************************************************************************)
(* guard_none_comparisons                                                  *)
(***************************************************************************)

\* GuardItem that replaces the value first and then flags what it reads back
\* from out: out[k_is_none] = (out[k] is None).
GuardItemStale(out, k, v) ==
    LET replaced == IF v = NoneV THEN DictSet(out, k, NaN) ELSE out
    IN  DictSet(replaced, k \o "_is_none", BoolV(DictGet(replaced, k) = NoneV))

\* The body of the for loop, for the item <<k, v>>.
GuardItem(out, k, v) ==
    LET flagged == DictSet(out, k \o "_is_none", BoolV(v = NoneV))
    IN  IF v = NoneV THEN DictSet(flagged, k, NaN) ELSE flagged

\* The for loop over env.items(), from the dict out.
RECURSIVE GuardLoop(_, _)
GuardLoop(items, out) ==
    IF items = <<>> THEN out
    ELSE GuardLoop(Tail(items), GuardItem(out, Head(items)[1], Head(items)[2]))

guard_none_comparisons(e) == GuardLoop(e, e)

(***************************************************************************)
(* ast.parse(expr, mode="eval"): the tokens                                *)
(*                                                                         *)
(* The part of Python's grammar that the expressions of EvalTexts use:     *)
(* one line; names, decimal integers and '...' strings; the operators      *)
(* below.  What it does not cover (floats written with a point, line       *)
(* feeds, keyword arguments, lambda parameters, if/else, in, is) is        *)
(* reported as a syntax error, and occurs in no input of the model.        *)
(***************************************************************************)

Lower ==
    {"a", "b", "c", "d", "e", "f", "g", "h", "i", "j", "k", "l", "m", "n",
     "o", "p", "q", "r", "s", "t", "u", "v", "w", "x", "y", "z"}
Upper ==
    {"A", "B", "C", "D", "E", "F", "G", "H", "I", "J", "K", "L", "M", "N",
     "O", "P", "Q", "R", "S", "T", "U", "V", "W", "X", "Y", "Z"}
DigitSeq == <<"0", "1", "2", "3", "4", "5", "6", "7", "8", "9">>
Digits == {DigitSeq[j] : j \in 1..Len(DigitSeq)}
IdStart == Lower \cup Upper \cup {"_"}
IdChars == IdStart \cup Digits

PyKeywords ==
    {"False", "None", "True", "and", "as", "assert", "async", "await",
     "break", "class", "continue", "def", "del", "elif", "else", "except",
     "finally", "for", "from", "global", "if", "import", "in", "is",
     "lambda", "nonlocal", "not", "or", "pass", "raise", "return", "try",
     "while", "with", "yield"}

TwoCharOps == {<<"=", "=">>, <<"!", "=">>, <<"<", "=">>, <<">", "=">>, <<"*", "*">>}
OneCharOps == {"(", ")", "[", "]", ",", ".", "+", "-", "*", "/", "%", "<", ">", ":"}

\* The characters of a text, as one string.
RECURSIVE Str(_)
Str(cs) == IF cs = <<>> THEN "" ELSE Head(cs) \o Str(Tail(cs))

DigitVal(c) == (CHOOSE j \in 1..Len(DigitSeq) : DigitSeq[j] = c) - 1

RECURSIVE IntOf(_, _)
IntOf(cs, acc) ==
    IF cs = <<>> THEN acc ELSE IntOf(Tail(cs), 10 * acc + DigitVal(Head(cs)))

\* Last index of the run of characters of S that starts at index i of s.
RECURSIVE RunEnd(_, _, _)
RunEnd(s, i, S) ==
    IF i + 1 <= Len(s) /\ s[i + 1] \in S THEN RunEnd(s, i + 1, S) ELSE i

\* Index of the first quote at or after index i of s, or 0.
RECURSIVE QuoteAt(_, _)
QuoteAt(s, i) ==
    IF i > Len(s) THEN 0 ELSE IF s[i] = "'" THEN i ELSE QuoteAt(s, i + 1)

Token(k, s, i) == [k |-> k, s |-> s, i |-> i]

LexFail == [ok |-> FALSE]

RECURSIVE Lex(_, _, _)
Lex(s, i, acc) ==
    IF i > Len(s) THEN [ok |-> TRUE, toks |-> acc]
    ELSE LET c == s[i] IN
      IF c \in {" ", "\t"} THEN Lex(s, i + 1, acc)
      ELSE IF c \in IdStart THEN
             LET e == RunEnd(s, i, IdChars)
                 w == Str(SubSeq(s, i, e))
             IN  Lex(s, e + 1,
                     Append(acc, Token(IF w \in PyKeywords THEN "KW" ELSE "NAME", w, 0)))
      ELSE IF c \in Digits THEN
             LET e  == RunEnd(s, i, Digits)
                 ds == SubSeq(s, i, e)
             IN  IF \/ e < Len(s) /\ s[e + 1] \in IdStart \cup {"."}
                    \/ Len(ds) > 1 /\ ds[1] = "0" /\ IntOf(ds, 0) # 0
                 THEN LexFail
                 ELSE Lex(s, e + 1, Append(acc, Token("NUMBER", Str(ds), IntOf(ds, 0))))
      ELSE IF c = "'" THEN
             LET e == QuoteAt(s, i + 1)
             IN  IF e = 0 THEN LexFail
                 ELSE Lex(s, e + 1,
                          Append(acc, Token("STRING", Str(SubSeq(s, i + 1, e - 1)), 0)))
      ELSE IF c = "." /\ i < Len(s) /\ s[i + 1] \in Digits THEN LexFail
      ELSE IF i < Len(s) /\ <<c, s[i + 1]>> \in TwoCharOps THEN
             Lex(s, i + 2, Append(acc, Token("OP", c \o s[i + 1], 0)))
      ELSE IF c \in OneCharOps THEN Lex(s, i + 1, Append(acc, Token("OP", c, 0)))
      ELSE LexFail

(***************************************************************************)
(* ast.parse(expr, mode="eval"): the syntax tree                           *)
(*                                                                         *)
(* A node is [kind, id, val, kids]: kids are the child nodes in the order  *)
(* of ast.iter_child_nodes (the order of the class's _fields).             *)
(***************************************************************************)

NoVal == [t |-> "noval"]
Node(kind, id, val, kids) == [kind |-> kind, id |-> id, val |-> val, kids |-> kids]
Leaf(kind) == Node(kind, "", NoVal, <<>>)
Name(id) == Node("Name", id, NoVal, <<Leaf("Load")>>)
Constant(v) == Node("Constant", "", v, <<>>)
UnaryOp(op, operand) == Node("UnaryOp", "", NoVal, <<Leaf(op), operand>>)
BinOp(left, op, right) == Node("BinOp", "", NoVal, <<left, Leaf(op), right>>)
BoolOp(op, values) == Node("BoolOp", "", NoVal, <<Leaf(op)>> \o values)
Compare(left, ops, comparators) ==
    Node("Compare", "", NoVal,
         <<left>> \o [j \in 1..Len(ops) |-> Leaf(ops[j])] \o comparators)
Call(func, args) == Node("Call", "", NoVal, <<func>> \o args)
Attribute(value, attr) == Node("Attribute", attr, NoVal, <<value, Leaf("Load")>>)
Subscript(value, slice) == Node("Subscript", "", NoVal, <<value, slice, Leaf("Load")>>)
List(elts) == Node("List", "", NoVal, elts \o <<Leaf("Load")>>)
Tuple(elts) == Node("Tuple", "", NoVal, elts \o <<Leaf("Load")>>)
Lambda(body) == Node("Lambda", "", NoVal, <<Leaf("arguments"), body>>)
Expression(body) == Node("Expression", "", NoVal, <<body>>)

Ok(node, i) == [ok |-> TRUE, node |-> node, i |-> i]
Fail == [ok |-> FALSE]

Tok(toks, i) == IF i <= Len(toks) THEN toks[i] ELSE Token("EOF", "", 0)
IsOp(toks, i, s) == Tok(toks, i).k = "OP" /\ Tok(toks, i).s = s
IsKw(toks, i, s) == Tok(toks, i).k = "KW" /\ Tok(toks, i).s = s

CompareOps ==
    << <<"==", "Eq">>, <<"!=", "NotEq">>, <<"<", "Lt">>, <<"<=", "LtE">>,
       <<">", "Gt">>, <<">=", "GtE">> >>
SumOps == << <<"+", "Add">>, <<"-", "Sub">> >>
TermOps == << <<"*", "Mult">>, <<"/", "Div">>, <<"%", "Mod">> >>
SignOps == << <<"-", "USub">>, <<"+", "UAdd">> >>

\* The node kind of the operator token at index i, or "" if it is none of ops.
OpKind(toks, i, ops) ==
    IF Tok(toks, i).k = "OP" /\ \E j \in 1..Len(ops) : ops[j][1] = Tok(toks, i).s
    THEN ops[CHOOSE j \in 1..Len(ops) : ops[j][1] = Tok(toks, i).s][2]
    ELSE ""

Closes(toks, i) ==
    Tok(toks, i).k = "EOF" \/ IsOp(toks, i, ")") \/ IsOp(toks, i, "]")

\* The parse goes on with K from the result r of a rule, unless r failed.
Then(r, K(_)) == IF r.ok THEN K(r) ELSE Fail

RECURSIVE ParseExpr(_, _), ParseItems(_, _, _, _), ParseOr(_, _),
          ParseOrRest(_, _, _), ParseAnd(_, _), ParseAndRest(_, _, _),
          ParseNot(_, _), ParseCmp(_, _), ParseCmpRest(_, _, _, _, _),
          ParseSum(_, _), ParseSumRest(_, _, _), ParseTerm(_, _),
          ParseTermRest(_, _, _), ParseFactor(_, _), ParsePower(_, _),
          ParsePrimary(_, _), ParseTrailers(_, _, _), ParseAtom(_, _)

\* expression: 'lambda' ':' expression | disjunction
ParseExpr(toks, i) ==
    IF IsKw(toks, i, "lambda")
    THEN IF ~IsOp(toks, i + 1, ":") THEN Fail
         ELSE Then(ParseExpr(toks, i + 2), LAMBDA b : Ok(Lambda(b.node), b.i))
    ELSE ParseOr(toks, i)

\* expression (',' expression)* [','] up to a closing token.
ParseItems(toks, i, acc, commas) ==
    IF Closes(toks, i)
    THEN [ok |-> TRUE, items |-> acc, commas |-> commas, i |-> i]
    ELSE Then(ParseExpr(toks, i), LAMBDA e :
             IF IsOp(toks, e.i, ",")
             THEN ParseItems(toks, e.i + 1, Append(acc, e.node), TRUE)
             ELSE IF Closes(toks, e.i)
             THEN [ok |-> TRUE, items |-> Append(acc, e.node),
                   commas |-> commas, i |-> e.i]
             ELSE Fail)

\* disjunction: conjunction ('or' conjunction)*
ParseOr(toks, i) ==
    Then(ParseAnd(toks, i), LAMBDA l : ParseOrRest(toks, l.i, <<l.node>>))

ParseOrRest(toks, i, values) ==
    IF IsKw(toks, i, "or")
    THEN Then(ParseAnd(toks, i + 1),
              LAMBDA r : ParseOrRest(toks, r.i, Append(values, r.node)))
    ELSE Ok(IF Len(values) = 1 THEN values[1] ELSE BoolOp("Or", values), i)

\* conjunction: inversion ('and' inversion)*
ParseAnd(toks, i) ==
    Then(ParseNot(toks, i), LAMBDA l : ParseAndRest(toks, l.i, <<l.node>>))

ParseAndRest(toks, i, values) ==
    IF IsKw(toks, i, "and")
    THEN Then(ParseNot(toks, i + 1),
              LAMBDA r : ParseAndRest(toks, r.i, Append(values, r.node)))
    ELSE Ok(IF Len(values) = 1 THEN values[1] ELSE BoolOp("And", values), i)

\* inversion: 'not' inversion | comparison
ParseNot(toks, i) ==
    IF IsKw(toks, i, "not")
    THEN Then(ParseNot(toks, i + 1), LAMBDA r : Ok(UnaryOp("Not", r.node), r.i))
    ELSE ParseCmp(toks, i)

\* comparison: sum (compare_op sum)*
ParseCmp(toks, i) ==
    Then(ParseSum(toks, i), LAMBDA l : ParseCmpRest(toks, l.i, l.node, <<>>, <<>>))

ParseCmpRest(toks, i, left, ops, comparators) ==
    IF OpKind(toks, i, CompareOps) # ""
    THEN Then(ParseSum(toks, i + 1),
              LAMBDA r : ParseCmpRest(toks, r.i, left,
                                      Append(ops, OpKind(toks, i, CompareOps)),
                                      Append(comparators, r.node)))
    ELSE Ok(IF ops = <<>> THEN left ELSE Compare(left, ops, comparators), i)

\* sum: term (('+' | '-') term)*
ParseSum(toks, i) ==
    Then(ParseTerm(toks, i), LAMBDA l : ParseSumRest(toks, l.i, l.node))

ParseSumRest(toks, i, left) ==
    IF OpKind(toks, i, SumOps) # ""
    THEN Then(ParseTerm(toks, i + 1),
              LAMBDA r : ParseSumRest(toks, r.i,
                                      BinOp(left, OpKind(toks, i, SumOps), r.node)))
    ELSE Ok(left, i)

\* term: factor (('*' | '/' | '%') factor)*
ParseTerm(toks, i) ==
    Then(ParseFactor(toks, i), LAMBDA l : ParseTermRest(toks, l.i, l.node))

ParseTermRest(toks, i, left) ==
    IF OpKind(toks, i, TermOps) # ""
    THEN Then(ParseFactor(toks, i + 1),
              LAMBDA r : ParseTermRest(toks, r.i,
                                       BinOp(left, OpKind(toks, i, TermOps), r.node)))
    ELSE Ok(left, i)

\* factor: ('-' | '+') factor | power
ParseFactor(toks, i) ==
    IF OpKind(toks, i, SignOps) # ""
    THEN Then(ParseFactor(toks, i + 1),
              LAMBDA r : Ok(UnaryOp(OpKind(toks, i, SignOps), r.node), r.i))
    ELSE ParsePower(toks, i)

\* power: primary ['**' factor]
ParsePower(toks, i) ==
    Then(ParsePrimary(toks, i), LAMBDA l :
        IF IsOp(toks, l.i, "**")
        THEN Then(ParseFactor(toks, l.i + 1),
                  LAMBDA r : Ok(BinOp(l.node, "Pow", r.node), r.i))
        ELSE l)

\* primary: atom ('(' arguments ')' | '.' NAME | '[' slices ']')*
ParsePrimary(toks, i) ==
    Then(ParseAtom(toks, i), LAMBDA a : ParseTrailers(toks, a.i, a.node))

ParseTrailers(toks, i, value) ==
    IF IsOp(toks, i, "(")
    THEN Then(ParseItems(toks, i + 1, <<>>, FALSE), LAMBDA args :
             IF IsOp(toks, args.i, ")")
             THEN ParseTrailers(toks, args.i + 1, Call(value, args.items))
             ELSE Fail)
    ELSE IF IsOp(toks, i, ".")
    THEN IF Tok(toks, i + 1).k = "NAME"
         THEN ParseTrailers(toks, i + 2, Attribute(value, Tok(toks, i + 1).s))
         ELSE Fail
    ELSE IF IsOp(toks, i, "[")
    THEN Then(ParseItems(toks, i + 1, <<>>, FALSE), LAMBDA sl :
             IF IsOp(toks, sl.i, "]") /\ sl.items # <<>>
             THEN ParseTrailers(toks, sl.i + 1,
                      Subscript(value, IF sl.commas THEN Tuple(sl.items)
                                                    ELSE sl.items[1]))
             ELSE Fail)
    ELSE Ok(value, i)

\* atom: NAME | NUMBER | STRING | True | False | None | group | tuple | list
ParseAtom(toks, i) ==
    LET t == Tok(toks, i) IN
    IF t.k = "NAME" THEN Ok(Name(t.s), i + 1)
    ELSE IF t.k = "NUMBER" THEN Ok(Constant(IntV(t.i)), i + 1)
    ELSE IF t.k = "STRING"
    THEN IF Tok(toks, i + 1).k = "STRING" THEN Fail
         ELSE Ok(Constant(StrV(t.s)), i + 1)
    ELSE IF IsKw(toks, i, "True") THEN Ok(Constant(BoolV(TRUE)), i + 1)
    ELSE IF IsKw(toks, i, "False") THEN Ok(Constant(BoolV(FALSE)), i + 1)
    ELSE IF IsKw(toks, i, "None") THEN Ok(Constant(NoneV), i + 1)
    ELSE IF IsOp(toks, i, "(")
    THEN Then(ParseItems(toks, i + 1, <<>>, FALSE), LAMBDA g :
             IF IsOp(toks, g.i, ")")
             THEN Ok(IF g.commas \/ g.items = <<>> THEN Tuple(g.items)
                                                   ELSE g.items[1], g.i + 1)
             ELSE Fail)
    ELSE IF IsOp(toks, i, "[")
    THEN Then(ParseItems(toks, i + 1, <<>>, FALSE), LAMBDA g :
             IF IsOp(toks, g.i, "]") THEN Ok(List(g.items), g.i + 1) ELSE Fail)
    ELSE Fail

\* The tree of the tokens: an Expression node over the one item, or over the
\* Tuple of the items.
ParseTokens(toks) ==
    Then(ParseItems(toks, 1, <<>>, FALSE), LAMBDA top :
        IF Tok(toks, top.i).k = "EOF" /\ top.items # <<>>
        THEN [ok |-> TRUE,
              tree |-> Expression(IF top.commas THEN Tuple(top.items)
                                                ELSE top.items[1])]
        ELSE Fail)

\* ast.parse(expr, mode="eval"): [ok |-> TRUE, tree |-> an Expression node],
\* or [ok |-> FALSE] for a SyntaxError.
Parse(s) ==
    IF s # <<>> /\ s[1] \in {" ", "\t"} THEN Fail
    ELSE Then(Lex(s, 1, <<>>), LAMBDA lx : ParseTokens(lx.toks))

(***************************************************************************)
(* ast.walk                                                                *)
(***************************************************************************)

\* A node of the tree is named by its path: the child indexes from the root.
RECURSIVE NodeAt(_, _)
NodeAt(node, path) ==
    IF path = <<>> THEN node ELSE NodeAt(node.kids[Head(path)], Tail(path))

\* ChildPaths that yields only the first child of a node.
ChildPathsFirst(node, path) ==
    IF node.kids = <<>> THEN <<>> ELSE <<Append(path, 1)>>

\* ast.iter_child_nodes(node), as paths.
ChildPaths(node, path) == [j \in 1..Len(node.kids) |-> Append(path, j)]

RECURSIVE AllPaths(_, _)
AllPaths(node, path) ==
    {path} \cup UNION {AllPaths(node.kids[j], Append(path, j)) : j \in 1..Len(node.kids)}

\* ast.walk(root): the paths of the nodes in the order it yields them.
RECURSIVE WalkFrom(_, _, _)
WalkFrom(root, queue, acc) ==
    IF queue = <<>> THEN acc
    ELSE WalkFrom(root,
                  Tail(queue) \o ChildPaths(NodeAt(root, Head(queue)), Head(queue)),
                  Append(acc, Head(queue)))

Walk(root) == WalkFrom(root, << <<>> >>, <<>>)

(***************************************************************************)
(* The checks of one node in safe_eval_expr's loop                         *)
(***************************************************************************)

Raise(exc, msg, arg) == [kind |-> "raise", exc |-> exc, msg |-> msg, arg |-> arg]
Return(b) == [kind |-> "return", value |-> b]

DisallowedSyntax == "Disallowed syntax: "
DisallowedName == "Disallowed name: "
DisallowedCall == "Only calls to allowed functions are permitted."

\* not isinstance(node, ALLOWED_NODES)
BadSyntax(node) == node.kind \notin ALLOWED_NODES

\* isinstance(node, ast.Name) and node.id not in ALLOWED_NAMES
BadName(node) == node.kind = "Name" /\ node.id \notin ALLOWED_NAMES

\* isinstance(node, ast.Call) and (not isinstance(node.func, ast.Name)
\*                                 or node.func.id not in ALLOWED_FUNCS)
BadCall(node) ==
    /\ node.kind = "Call"
    /\ \/ node.kids[1].kind # "Name"
       \/ node.kids[1].id \notin Keys(ALLOWED_FUNCS)

NoRaise == [kind |-> "none"]

\* CheckNode without the isinstance(node, ALLOWED_NODES) check.
CheckNodeNoSyntax(node) ==
    IF BadName(node) THEN Raise("ValueError", DisallowedName, node.id)
    ELSE IF BadCall(node) THEN Raise("ValueError", DisallowedCall, "")
    ELSE NoRaise

\* CheckNode that checks a name against ALLOWED_NAMES only where it is called.
CheckNodeNoName(node) ==
    IF BadSyntax(node) THEN Raise("ValueError", DisallowedSyntax, node.kind)
    ELSE IF BadCall(node) THEN Raise("ValueError", DisallowedCall, "")
    ELSE NoRaise

\* CheckNode whose call check accepts any name as the target.
CheckNodeAnyName(node) ==
    IF BadSyntax(node) THEN Raise("ValueError", DisallowedSyntax, node.kind)
    ELSE IF BadName(node) THEN Raise("ValueError", DisallowedName, node.id)
    ELSE IF node.kind = "Call" /\ node.kids[1].kind # "Name"
    THEN Raise("ValueError", DisallowedCall, "")
    ELSE NoRaise

\* What the loop body raises for a node, or NoRaise.
CheckNode(node) ==
    IF BadSyntax(node) THEN Raise("ValueError", DisallowedSyntax, node.kind)
    ELSE IF BadName(node) THEN Raise("ValueError", DisallowedName, node.id)
    ELSE IF BadCall(node) THEN Raise("ValueError", DisallowedCall, "")
    ELSE NoRaise

(***************************************************************************)
(* eval(compiled, {"__builtins__": {}}, full_env)                          *)
(***************************************************************************)

IsExc(v) == v.t = "exc"
IsNumber(v) == v.t \in {"int", "bool", "float"}
IsNumeric(v) == IsNumber(v) \/ v.t = "nan"

\* A number as a fraction <<numerator, denominator>>, denominator > 0.
Frac(v) ==
    IF v.t = "int" THEN <<v.i, 1>>
    ELSE IF v.t = "bool" THEN <<IF v.b THEN 1 ELSE 0, 1>>
    ELSE <<v.n, v.d>>

Abs(i) == IF i < 0 THEN -i ELSE i

RECURSIVE Gcd(_, _)
Gcd(a, b) == IF b = 0 THEN a ELSE Gcd(b, a % b)

\* The float n/d, d # 0.
MkFloat(n, d) ==
    LET g == Gcd(Abs(n), Abs(d))
        s == IF d < 0 THEN -1 ELSE 1
    IN  FloatV((s * n) \div g, (s * d) \div g)

\* The number n/d of the type that arithmetic on a and b gives.
MkNumber(a, b, n, d) ==
    IF a.t = "float" \/ b.t = "float" THEN MkFloat(n, d) ELSE IntV(n \div d)

\* bool(v)
Truthy(v) ==
    IF IsNumber(v) THEN Frac(v)[1] # 0
    ELSE IF v.t = "none" THEN FALSE
    ELSE IF v.t = "str" THEN v.s # ""
    ELSE TRUE

\* a op b for the binary operators of ALLOWED_NODES, on numbers and NaN.
Arith(op, a, b) ==
    IF ~(IsNumeric(a) /\ IsNumeric(b))
    THEN IF a.t = "str" \/ b.t = "str" THEN Exc("Unmodelled") ELSE Exc("TypeError")
    ELSE IF op = "Div" /\ IsNumber(b) /\ Frac(b)[1] = 0 THEN Exc("ZeroDivisionError")
    ELSE IF a.t = "nan" \/ b.t = "nan" THEN NaN
    ELSE LET x == Frac(a)
             y == Frac(b)
         IN  CASE op = "Add" -> MkNumber(a, b, x[1] * y[2] + y[1] * x[2], x[2] * y[2])
               [] op = "Sub" -> MkNumber(a, b, x[1] * y[2] - y[1] * x[2], x[2] * y[2])
               [] op = "Mult" -> MkNumber(a, b, x[1] * y[1], x[2] * y[2])
               [] op = "Div" -> MkFloat(x[1] * y[2], x[2] * y[1])
               [] OTHER -> Exc("Unmodelled")

\* -a
Negate(a) ==
    IF a.t = "nan" THEN NaN
    ELSE IF a.t = "float" THEN FloatV(-a.n, a.d)
    ELSE IF IsNumber(a) THEN IntV(-Frac(a)[1])
    ELSE Exc("TypeError")

\* Two numbers are equal / the first is less than the second.
NumEq(a, b) == Frac(a)[1] * Frac(b)[2] = Frac(b)[1] * Frac(a)[2]
NumLt(a, b) == Frac(a)[1] * Frac(b)[2] < Frac(b)[1] * Frac(a)[2]

\* a op b for the comparison operators: TRUE, FALSE, or an exception.
CompareValues(op, a, b) ==
    IF op \in {"Is", "IsNot"} THEN Exc("Unmodelled")
    ELSE IF op \in {"Eq", "NotEq"}
    THEN LET eq == IF IsNumber(a) /\ IsNumber(b) THEN NumEq(a, b)
                   ELSE IF a.t = "nan" \/ b.t = "nan" THEN FALSE
                   ELSE a = b
         IN  BoolV(IF op = "Eq" THEN eq ELSE ~eq)
    ELSE IF ~(IsNumeric(a) /\ IsNumeric(b))
    THEN IF a.t = "str" /\ b.t = "str" THEN Exc("Unmodelled") ELSE Exc("TypeError")
    ELSE IF a.t = "nan" \/ b.t = "nan" THEN BoolV(FALSE)
    ELSE BoolV(CASE op = "Lt" -> NumLt(a, b)
                 [] op = "LtE" -> NumLt(a, b) \/ NumEq(a, b)
                 [] op = "Gt" -> NumLt(b, a)
                 [] op = "GtE" -> NumLt(b, a) \/ NumEq(a, b))

\* def implies(a, b): return (not a) or b
implies(a, b) == IF ~Truthy(a) THEN BoolV(TRUE) ELSE b

\* max(*args) and min(*args) for two or more arguments: the running best
\* is replaced by an argument that compares greater (less).
RECURSIVE Best(_, _, _)
Best(op, best, rest) ==
    IF rest = <<>> THEN best
    ELSE LET c == CompareValues(op, Head(rest), best)
         IN  IF IsExc(c) THEN c
             ELSE Best(op, IF c.b THEN Head(rest) ELSE best, Tail(rest))

\* f(*args) for a value f.
Apply(f, args) ==
    IF f.t # "func" THEN Exc("TypeError")
    ELSE IF f.f = "implies"
    THEN IF Len(args) = 2 THEN implies(args[1], args[2]) ELSE Exc("TypeError")
    ELSE IF f.f = "abs"
    THEN IF Len(args) # 1 THEN Exc("TypeError")
         ELSE IF args[1].t = "nan" THEN NaN
         ELSE IF args[1].t = "float" THEN FloatV(Abs(args[1].n), args[1].d)
         ELSE IF IsNumber(args[1]) THEN IntV(Abs(Frac(args[1])[1]))
         ELSE Exc("TypeError")
    ELSE IF Len(args) = 0 THEN Exc("TypeError")
    ELSE IF Len(args) = 1
    THEN IF args[1].t = "str" THEN Exc("Unmodelled") ELSE Exc("TypeError")
    ELSE Best(IF f.f = "max" THEN "Gt" ELSE "Lt", args[1], Tail(args))

RECURSIVE Eval(_, _), EvalBool(_, _, _, _), EvalCompare(_, _, _, _, _),
          EvalArgs(_, _, _, _, _)

\* The value of a node under the names of locals, or the exception raised.
Eval(node, locals) ==
    CASE node.kind = "Expression" -> Eval(node.kids[1], locals)
      [] node.kind = "Constant" -> node.val
      [] node.kind = "Name" ->
           IF HasKey(locals, node.id) THEN DictGet(locals, node.id)
           ELSE Exc("NameError")
      [] node.kind = "UnaryOp" ->
           LET v == Eval(node.kids[2], locals)
           IN  IF IsExc(v) THEN v
               ELSE IF node.kids[1].kind = "Not" THEN BoolV(~Truthy(v))
               ELSE IF node.kids[1].kind = "USub" THEN Negate(v)
               ELSE Exc("Unmodelled")
      [] node.kind = "BinOp" ->
           LET l == Eval(node.kids[1], locals)
           IN  IF IsExc(l) THEN l
               ELSE LET r == Eval(node.kids[3], locals)
                    IN  IF IsExc(r) THEN r ELSE Arith(node.kids[2].kind, l, r)
      [] node.kind = "BoolOp" -> EvalBool(node.kids[1].kind, node.kids, 2, locals)
      [] node.kind = "Compare" ->
           LET l == Eval(node.kids[1], locals)
           IN  IF IsExc(l) THEN l
               ELSE EvalCompare(node.kids, (Len(node.kids) - 1) \div 2, 1, l, locals)
      [] node.kind = "Call" ->
           LET f == Eval(node.kids[1], locals)
           IN  IF IsExc(f) THEN f ELSE EvalArgs(f, node.kids, 2, <<>>, locals)
      [] OTHER -> Exc("Unmodelled")

\* "and" gives its first falsy operand, "or" its first truthy one, and both
\* their last operand otherwise; kids[j] is the next operand.
EvalBool(op, kids, j, locals) ==
    LET v == Eval(kids[j], locals)
    IN  IF IsExc(v) \/ j = Len(kids) THEN v
        ELSE IF (op = "And") # Truthy(v) THEN v
        ELSE EvalBool(op, kids, j + 1, locals)

\* The j-th of the n comparisons of a chain; left is its left operand.  The
\* chain stops at the first comparison that is false.
EvalCompare(kids, n, j, left, locals) ==
    LET r == Eval(kids[1 + n + j], locals)
    IN  IF IsExc(r) THEN r
        ELSE LET c == CompareValues(kids[1 + j].kind, left, r)
             IN  IF IsExc(c) \/ j = n THEN c
                 ELSE IF ~c.b THEN c
                 ELSE EvalCompare(kids, n, j + 1, r, locals)

\* The arguments are evaluated from left to right, then f is called.
EvalArgs(f, kids, j, args, locals) ==
    IF j > Len(kids) THEN Apply(f, args)
    ELSE LET v == Eval(kids[j], locals)
         IN  IF IsExc(v) THEN v
             ELSE EvalArgs(f, kids, j + 1, Append(args, v), locals)

(***************************************************************************)
(* Inputs of the rewriter                                                  *)
(***************************************************************************)

MaxParts == 4

RewriteParts ==
    { <<"A">>, <<" ">>, <<"\n">>, Keyword, <<" ">> \o Keyword \o <<" ">> }

ChainABC ==
    Flatten(<< <<"A", " ">>, Keyword, <<" ", "B", " ">>, Keyword, <<" ", "C">> >>)

RewriteTexts ==
    {Flatten(ps) : ps \in SeqsUpTo(RewriteParts, MaxParts)} \cup {ChainABC}

(***************************************************************************)
(* Inputs of the evaluator and of the guard                                *)
(***************************************************************************)

EvalWords ==
    { <<"n">>,
      <<"d", "i", "a", "m", "e", "t", "e", "r">>,
      <<"s", "e", "c", "r", "e", "t">>,
      <<"3">>,
      <<"i", "m", "p", "l", "i", "e", "s">>,
      <<"<", "=">>,
      <<"a", "n", "d">>,
      <<"n", "o", "t">> }

\* is_connected implies diameter <= 3
GuardedImplies ==
    <<"i", "s", "_", "c", "o", "n", "n", "e", "c", "t", "e", "d", " ", "i",
      "m", "p", "l", "i", "e", "s", " ", "d", "i", "a", "m", "e", "t", "e",
      "r", " ", "<", "=", " ", "3">>

\* diameter_is_none
FlagCheck ==
    <<"d", "i", "a", "m", "e", "t", "e", "r", "_", "i", "s", "_", "n", "o",
      "n", "e">>

\* n implies m implies is_connected
ChainedImplies ==
    <<"n", " ", "i", "m", "p", "l", "i", "e", "s", " ", "m", " ", "i", "m",
      "p", "l", "i", "e", "s", " ", "i", "s", "_", "c", "o", "n", "n", "e",
      "c", "t", "e", "d">>

\* diameter < 3
DiameterLt ==
    <<"d", "i", "a", "m", "e", "t", "e", "r", " ", "<", " ", "3">>

\* diameter <= 3
DiameterLtE ==
    <<"d", "i", "a", "m", "e", "t", "e", "r", " ", "<", "=", " ", "3">>

\* diameter > 3
DiameterGt ==
    <<"d", "i", "a", "m", "e", "t", "e", "r", " ", ">", " ", "3">>

\* diameter >= 3
DiameterGtE ==
    <<"d", "i", "a", "m", "e", "t", "e", "r", " ", ">", "=", " ", "3">>

\* diameter == 3
DiameterEq ==
    <<"d", "i", "a", "m", "e", "t", "e", "r", " ", "=", "=", " ", "3">>

\* diameter != 3
DiameterNotEq ==
    <<"d", "i", "a", "m", "e", "t", "e", "r", " ", "!", "=", " ", "3">>

\* A missing diameter compared with a number, by each comparison operator.
DiameterComparisons ==
    {DiameterLt, DiameterLtE, DiameterGt, DiameterGtE, DiameterEq, DiameterNotEq}

\* The expressions of the scenarios, and one or more for each error.
EvalScenarios ==
    DiameterComparisons \cup {GuardedImplies, FlagCheck, ChainedImplies} \cup
    {
      \* max(n, m) > 10
      <<"m", "a", "x", "(", "n", ",", " ", "m", ")", " ", ">", " ", "1",
        "0">>,
      \* __import__('os')
      <<"_", "_", "i", "m", "p", "o", "r", "t", "_", "_", "(", "'", "o",
        "s", "'", ")">>,
      \* secret_var > 0
      <<"s", "e", "c", "r", "e", "t", "_", "v", "a", "r", " ", ">", " ",
        "0">>,
      \* (lambda: 1)()
      <<"(", "l", "a", "m", "b", "d", "a", ":", " ", "1", ")", "(", ")">>,
      \* os.system('x')
      <<"o", "s", ".", "s", "y", "s", "t", "e", "m", "(", "'", "x", "'",
        ")">>,
      \* [n]
      <<"[", "n", "]">>,
      \* n.real
      <<"n", ".", "r", "e", "a", "l">>,
      \* n ** 2
      <<"n", " ", "*", "*", " ", "2">>,
      \* n % 2
      <<"n", " ", "%", " ", "2">>,
      \* lambda: n
      <<"l", "a", "m", "b", "d", "a", ":", " ", "n">>,
      \* n, m
      <<"n", ",", " ", "m">>,
      \* n[0]
      <<"n", "[", "0", "]">>,
      \* +n
      <<"+", "n">>,
      \* secret + [1]
      <<"s", "e", "c", "r", "e", "t", " ", "+", " ", "[", "1", "]">>,
      \* [secret]
      <<"[", "s", "e", "c", "r", "e", "t", "]">>,
      \* secret(1)
      <<"s", "e", "c", "r", "e", "t", "(", "1", ")">>,
      \* n(1)
      <<"n", "(", "1", ")">>,
      \* [n(1)]
      <<"[", "n", "(", "1", ")", "]">>,
      \* secret + n(1)
      <<"s", "e", "c", "r", "e", "t", " ", "+", " ", "n", "(", "1", ")">>,
      \* abs(secret)
      <<"a", "b", "s", "(", "s", "e", "c", "r", "e", "t", ")">>,
      \* abs([n])
      <<"a", "b", "s", "(", "[", "n", "]", ")">>,
      \* max(n.real, m)
      <<"m", "a", "x", "(", "n", ".", "r", "e", "a", "l", ",", " ", "m",
        ")">>,
      \* abs(n, m)
      <<"a", "b", "s", "(", "n", ",", " ", "m", ")">>,
      \* n / m
      <<"n", " ", "/", " ", "m">>,
      \* abs(n - m) >= 1
      <<"a", "b", "s", "(", "n", " ", "-", " ", "m", ")", " ", ">", "=",
        " ", "1">>,
      \* min(n, m) * 2 == n + n
      <<"m", "i", "n", "(", "n", ",", " ", "m", ")", " ", "*", " ", "2",
        " ", "=", "=", " ", "n", " ", "+", " ", "n">>,
      \* not n or m and 1
      <<"n", "o", "t", " ", "n", " ", "o", "r", " ", "m", " ", "a", "n",
        "d", " ", "1">>,
      \* max(n)
      <<"m", "a", "x", "(", "n", ")">>,
      \* abs
      <<"a", "b", "s">>,
      \* True
      <<"T", "r", "u", "e">>,
      \* None
      <<"N", "o", "n", "e">>,
      \* - n < 0
      <<"-", " ", "n", " ", "<", " ", "0">>,
      \* n < m < 3
      <<"n", " ", "<", " ", "m", " ", "<", " ", "3">>,
      \* max
      <<"m", "a", "x">>,
      \* implies(n, m)
      <<"i", "m", "p", "l", "i", "e", "s", "(", "n", ",", " ", "m", ")">>,
      \* abs(diameter)
      <<"a", "b", "s", "(", "d", "i", "a", "m", "e", "t", "e", "r", ")">>,
      \* min(diameter, 3)
      <<"m", "i", "n", "(", "d", "i", "a", "m", "e", "t", "e", "r", ",",
        " ", "3", ")">>,
      \* max(diameter, 3) > 2
      <<"m", "a", "x", "(", "d", "i", "a", "m", "e", "t", "e", "r", ",",
        " ", "3", ")", " ", ">", " ", "2">>,
      \* diameter / 2 < n
      <<"d", "i", "a", "m", "e", "t", "e", "r", " ", "/", " ", "2", " ",
        "<", " ", "n">>,
      \* n = 1
      <<"n", " ", "=", " ", "1">>,
      \*  n
      <<" ", "n">> }

MaxWords == 3

\* The words of a text, with one space between them.
RECURSIVE Join(_)
Join(ws) ==
    IF Len(ws) = 0 THEN <<>>
    ELSE IF Len(ws) = 1 THEN ws[1]
    ELSE ws[1] \o <<" ">> \o Join(Tail(ws))

EvalTexts ==
    EvalScenarios \cup {Join(ws) : ws \in SeqsUpTo(EvalWords, MaxWords) \ {<<>>}}

\* The bindings of the specification's scenarios, and some that bind a name
\* outside ALLOWED_VARS or the name of a function.
EvalBindings ==
    { <<>>,
      << <<"is_connected", BoolV(TRUE)>>, <<"diameter", IntV(2)>> >>,
      << <<"is_connected", BoolV(TRUE)>>, <<"diameter", NoneV>> >>,
      << <<"diameter", NoneV>> >>,
      << <<"n", IntV(5)>>, <<"m", IntV(12)>> >>,
      << <<"n", IntV(1)>>, <<"m", IntV(0)>>, <<"is_connected", BoolV(TRUE)>> >>,
      << <<"secret", IntV(1)>>, <<"secret_var", IntV(1)>>, <<"n", IntV(0)>> >>,
      << <<"max", IntV(0)>>, <<"n", IntV(2)>>, <<"m", NoneV>> >> }

MaxKeys == 2

GuardKeys == {"diameter", "diameter_is_none", "diameter_is_none_is_none", "n"}
GuardValues == {NoneV, IntV(3), BoolV(FALSE)}

\* Every dict of at most MaxKeys items over GuardKeys and GuardValues, in
\* every insertion order.
GuardBindings ==
    {d \in SeqsUpTo(GuardKeys \X GuardValues, MaxKeys) :
        \A i, j \in 1..Len(d) : i # j => d[i][1] # d[j][1]}

NoTree == Leaf("NoTree")
NoOutcome == [kind |-> "none"]

(***************************************************************************)
(* safe_eval_expr                                                          *)
(***************************************************************************)

Init ==
    /\ pc = "idle" /\ input = <<>> /\ expr = <<>> /\ first = <<>>
    /\ bindings = <<>> /\ env = <<>> /\ tree = NoTree /\ todo = <<>>
    /\ visited = <<>> /\ evaluated = FALSE /\ outcome = NoOutcome

\* A caller calls safe_eval_expr(expr, env).
EvalCall ==
    /\ pc = "idle"
    /\ \E e \in EvalTexts : input' = e /\ expr' = e
    /\ \E b \in EvalBindings : bindings' = b
    /\ pc' = "e_rewrite"
    /\ UNCHANGED <<first, env, tree, todo, visited, evaluated, outcome>>

\* One iteration of rewrite_implies's while loop: the condition holds, the
\* body runs.
RewriteLoop ==
    /\ pc \in {"e_rewrite", "rewrite", "rewrite2"}
    /\ PatternSearch(expr).found
    /\ expr' = PatternSub(expr)
    /\ UNCHANGED <<pc, input, first, bindings, env, tree, todo, visited,
                   evaluated, outcome>>

\* expr = rewrite_implies(expr): the loop condition fails, the call returns.
Rewritten ==
    /\ pc = "e_rewrite"
    /\ ~PatternSearch(expr).found
    /\ pc' = "e_parse"
    /\ UNCHANGED <<input, expr, first, bindings, env, tree, todo, visited,
                   evaluated, outcome>>

\* tree = ast.parse(expr, mode="eval")
ParseStep ==
    /\ pc = "e_parse"
    /\ LET p == Parse(expr)
       IN  IF p.ok
           THEN tree' = p.tree /\ pc' = "e_guard" /\ UNCHANGED outcome
           ELSE outcome' = Raise("SyntaxError", "", "") /\ pc' = "done"
                /\ UNCHANGED tree
    /\ UNCHANGED <<input, expr, first, bindings, env, todo, visited, evaluated>>

\* env = guard_none_comparisons(env), and ast.walk(tree) starts from the root.
GuardStep ==
    /\ pc = "e_guard"
    /\ env' = guard_none_comparisons(bindings)
    /\ todo' = << <<>> >>
    /\ pc' = "e_walk"
    /\ UNCHANGED <<input, expr, first, bindings, tree, visited, evaluated, outcome>>

\* One iteration of the for loop: ast.walk pops the next node and queues
\* its children, and the body checks the node.
WalkStep ==
    /\ pc = "e_walk"
    /\ todo # <<>>
    /\ LET path == Head(todo)
           node == NodeAt(tree, path)
       IN  /\ todo' = Tail(todo) \o ChildPaths(node, path)
           /\ IF CheckNode(node) = NoRaise
              THEN visited' = Append(visited, path) /\ UNCHANGED <<pc, outcome>>
              ELSE outcome' = CheckNode(node) /\ pc' = "done" /\ UNCHANGED visited
    /\ UNCHANGED <<input, expr, first, bindings, env, tree, evaluated>>

\* The walk is over: compile, eval under full_env = {**ALLOWED_FUNCS, **env}
\* and no builtins, and bool().
EvalStep ==
    /\ pc = "e_walk"
    /\ todo = <<>>
    /\ LET v == Eval(tree, DictMerge(ALLOWED_FUNCS, env))
       IN  outcome' = IF IsExc(v) THEN Raise(v.e, "", "") ELSE Return(Truthy(v))
    /\ evaluated' = TRUE
    /\ pc' = "done"
    /\ UNCHANGED <<input, expr, first, bindings, env, tree, todo, visited>>

\* The call is over (it returned or raised); the caller may call again.
Reset ==
    /\ pc = "done"
    /\ pc' = "idle" /\ input' = <<>> /\ expr' = <<>> /\ first' = <<>>
    /\ bindings' = <<>> /\ env' = <<>> /\ tree' = NoTree /\ todo' = <<>>
    /\ visited' = <<>> /\ evaluated' = FALSE /\ outcome' = NoOutcome

Next ==
    \/ EvalCall
    \/ RewriteLoop
    \/ Rewritten
    \/ ParseStep
    \/ GuardStep
    \/ WalkStep
    \/ EvalStep
    \/ Reset

Spec == Init /\ [][Next]_vars

(***************************************************************************)
(* rewrite(rewrite(e)): two calls of rewrite_implies in a row              *)
(***************************************************************************)

RewriteCall ==
    /\ pc = "idle"
    /\ \E e \in RewriteTexts : input' = e /\ expr' = e
    /\ pc' = "rewrite"
    /\ UNCHANGED <<first, bindings, env, tree, todo, visited, evaluated, outcome>>

\* The loop condition fails: the first call returns, and its result is the
\* argument of the second call.
RewriteReturn ==
    /\ pc = "rewrite"
    /\ ~PatternSearch(expr).found
    /\ first' = expr
    /\ pc' = "rewrite2"
    /\ UNCHANGED <<input, expr, bindings, env, tree, todo, visited, evaluated,
                   outcome>>

RewriteReturn2 ==
    /\ pc = "rewrite2"
    /\ ~PatternSearch(expr).found
    /\ pc' = "done"
    /\ UNCHANGED <<input, expr, first, bindings, env, tree, todo, visited,
                   evaluated, outcome>>

NextRewrite ==
    \/ RewriteCall
    \/ RewriteLoop
    \/ RewriteReturn
    \/ RewriteReturn2
    \/ Reset

SpecRewrite == Init /\ [][NextRewrite]_vars

(***************************************************************************)
(* guard_none_comparisons on its own                                       *)
(***************************************************************************)

GuardCall ==
    /\ pc = "idle"
    /\ \E b \in GuardBindings : bindings' = b
    /\ pc' = "guard"
    /\ UNCHANGED <<input, expr, first, env, tree, todo, visited, evaluated, outcome>>

GuardReturn ==
    /\ pc = "guard"
    /\ env' = guard_none_comparisons(bindings)
    /\ pc' = "done"
    /\ UNCHANGED <<input, expr, first, bindings, tree, todo, visited, evaluated,
                   outcome>>

NextGuard ==
    \/ GuardCall
    \/ GuardReturn
    \/ Reset

SpecGuard == Init /\ [][NextGuard]_vars

(***************************************************************************)
(* Properties of the rewriter                                              *)
(***************************************************************************)

\* The occurrences of the keyword with whitespace on both sides: the only
\* places where the pattern's "\s+implies\s+" can match.
InfixKeywords(s) ==
    {p \in 2..Len(s) : /\ s[p - 1] \in Whitespace
                       /\ HasKeywordAt(s, p)
                       /\ p + Len(Keyword) <= Len(s)
                       /\ s[p + Len(Keyword)] \in Whitespace}

\* C8: rewrite is total and reaches a fixpoint.  Every iteration of the loop
\* removes one whitespace-delimited keyword and creates none, so the loop
\* terminates; what a call returns no longer matches the pattern; a second
\* call returns its argument unchanged (rewrite(rewrite(e)) = rewrite(e));
\* and an input that never matches is returned as it is.
C8_RewriteFixpoint ==
    /\ [][RewriteLoop =>
            Cardinality(InfixKeywords(expr')) < Cardinality(InfixKeywords(expr))]_vars
    /\ [](pc \in {"rewrite2", "done"} => ~PatternSearch(first).found)
    /\ [](pc = "done" => expr = first)
    /\ [](pc \in {"rewrite2", "done"} /\ ~PatternSearch(input).found
            => first = input)

\* Both calls have returned, and the first one rewrote two infix keywords.
C8_Witness ==
    /\ pc = "done"
    /\ first # input
    /\ Cardinality(InfixKeywords(input)) >= 2

(***************************************************************************)
(* Properties of the guard                                                 *)
(***************************************************************************)

Flag(k) == k \o "_is_none"

Position(d, k) == CHOOSE j \in 1..Len(d) : d[j][1] = k

\* What guarding makes of the value bindings[k].
Guarded(k) == IF DictGet(bindings, k) = NoneV THEN NaN ELSE DictGet(bindings, k)

IsMissing(k) == BoolV(DictGet(bindings, k) = NoneV)

GuardedKeys == Keys(bindings) \cup {Flag(k) : k \in Keys(bindings)}

\* C7, as claimed: for every bindings map, the guarded environment has the
\* keys of bindings and a flag key for each, every flag says whether its key
\* is missing, and every original key has its value, or NaN if it is missing.
C7_GuardedEnvironment ==
    pc = "done" =>
        /\ Keys(env) = GuardedKeys
        /\ \A k \in Keys(bindings) :
              /\ DictGet(env, Flag(k)) = IsMissing(k)
              /\ DictGet(env, k) = Guarded(k)

\* C7, amended: the key set is as claimed.  A flag key that is not itself a
\* key of bindings says whether its key is missing, and an original key
\* that is not the flag key of another original key has its value, or NaN if
\* it is missing.  Where bindings holds both k and k_is_none, the guarded
\* k_is_none is the flag of k, unless bindings[k_is_none] is missing and was
\* inserted after k: then it is NaN.
C7_GuardedEnvironmentAmended ==
    pc = "done" =>
        /\ Keys(env) = GuardedKeys
        /\ \A k \in Keys(bindings) :
              /\ Flag(k) \notin Keys(bindings)
                    => DictGet(env, Flag(k)) = IsMissing(k)
              /\ (\A j \in Keys(bindings) : k # Flag(j))
                    => DictGet(env, k) = Guarded(k)
              /\ Flag(k) \in Keys(bindings)
                    => DictGet(env, Flag(k)) =
                          IF /\ DictGet(bindings, Flag(k)) = NoneV
                             /\ Position(bindings, Flag(k)) > Position(bindings, k)
                          THEN NaN
                          ELSE IsMissing(k)

\* The guard has run on bindings that hold a missing key and its flag key.
C7_Witness ==
    /\ pc = "done"
    /\ \E k \in Keys(bindings) :
          Flag(k) \in Keys(bindings) /\ DictGet(bindings, k) = NoneV
    /\ Len(env) > Len(bindings)

(***************************************************************************)
(* Properties of the evaluator                                             *)
(***************************************************************************)

\* implies(n, implies(m, is_connected))
ChainedImpliesNested ==
    <<"i", "m", "p", "l", "i", "e", "s", "(", "n", ",", " ", "i", "m", "p",
      "l", "i", "e", "s", "(", "m", ",", " ", "i", "s", "_", "c", "o", "n",
      "n", "e", "c", "t", "e", "d", ")", ")">>

Parsed == tree # NoTree

Nodes == {NodeAt(tree, p) : p \in AllPaths(tree, <<>>)}

Violates(node) == BadSyntax(node) \/ BadName(node) \/ BadCall(node)

\* The first node, in the order of the walk, that fails a check.
FirstViolation ==
    LET w == Walk(tree)
        J == {j \in 1..Len(w) : Violates(NodeAt(tree, w[j]))}
    IN  NodeAt(tree, w[CHOOSE j \in J : \A i \in J : j <= i])

\* The error of the first node that fails a check.
FirstViolationError ==
    IF BadSyntax(FirstViolation)
    THEN Raise("ValueError", DisallowedSyntax, FirstViolation.kind)
    ELSE IF BadName(FirstViolation)
    THEN Raise("ValueError", DisallowedName, FirstViolation.id)
    ELSE Raise("ValueError", DisallowedCall, "")

Bound(k) == HasKey(bindings, k)

\* C1, as claimed: infix implies associates to the right.  The chained
\* expression "n implies m implies is_connected" is rewritten to
\* "implies(n, implies(m, is_connected))", and evaluating it with the three
\* names bound returns a boolean.
C1_RightAssociative ==
    input = ChainedImplies =>
        /\ pc \in {"e_parse", "e_guard", "e_walk", "done"}
              => expr = ChainedImpliesNested
        /\ pc = "done" /\ Bound("n") /\ Bound("m") /\ Bound("is_connected")
              => outcome.kind = "return"

\* C2, as claimed: the presence flag is usable in expressions.  With diameter
\* bound, evaluating "diameter_is_none" returns whether diameter is missing.
C2_FlagUsable ==
    pc = "done" /\ input = FlagCheck /\ Bound("diameter")
        => outcome = Return(DictGet(bindings, "diameter") = NoneV)

\* C3, as claimed: a missing value never crashes a comparison.  With diameter
\* missing, comparing diameter with 3 by <, <=, >, >=, == or != returns
\* false, and so does "is_connected implies diameter <= 3" when is_connected
\* is true.
C3_MissingComparesFalse ==
    pc = "done" /\ Bound("diameter") /\ DictGet(bindings, "diameter") = NoneV
        => /\ input \in DiameterComparisons => outcome = Return(FALSE)
           /\ /\ input = GuardedImplies
              /\ Bound("is_connected")
              /\ DictGet(bindings, "is_connected") = BoolV(TRUE)
              => outcome = Return(FALSE)

\* C4, as claimed: an expression in which a node of a kind outside
\* ALLOWED_NODES occurs fails with "Disallowed syntax" naming the kind of
\* such a node, and is never evaluated.
C4_AllowlistSound ==
    Parsed /\ (\E node \in Nodes : BadSyntax(node)) =>
        /\ ~evaluated
        /\ pc = "done" =>
              \E node \in Nodes :
                  /\ BadSyntax(node)
                  /\ outcome = Raise("ValueError", DisallowedSyntax, node.kind)

\* C4, amended: such an expression is never evaluated and fails with one of
\* the three validation errors: the error of the first node, in the
\* breadth-first order of the walk, that fails a check.  That is "Disallowed
\* syntax" naming the node's kind only if no name outside ALLOWED_NAMES and
\* no call of another target comes earlier in that order.
C4_AllowlistSoundAmended ==
    Parsed /\ (\E node \in Nodes : BadSyntax(node)) =>
        /\ ~evaluated
        /\ pc = "done" => outcome = FirstViolationError

\* A nested node of a disallowed kind was reached and reported.
C4_Witness ==
    /\ pc = "done"
    /\ \E node \in Nodes : BadSyntax(node)
    /\ outcome.kind = "raise" /\ outcome.msg = DisallowedSyntax
    /\ Len(visited) >= 2

\* C5, as claimed: an expression that refers to a name outside ALLOWED_NAMES
\* fails with "Disallowed name" naming such a name, and is never evaluated,
\* whatever bindings holds.
C5_NameSound ==
    Parsed /\ (\E node \in Nodes : BadName(node)) =>
        /\ ~evaluated
        /\ pc = "done" =>
              \E node \in Nodes :
                  /\ BadName(node)
                  /\ outcome = Raise("ValueError", DisallowedName, node.id)

\* C5, amended: such an expression is never evaluated, whatever bindings
\* holds, and fails with one of the three validation errors: "Disallowed
\* name" naming the name if the name is the first node of the walk that
\* fails a check, and otherwise the error of the node that is (a disallowed
\* kind, or the call whose target the name is).
C5_NameSoundAmended ==
    Parsed /\ (\E node \in Nodes : BadName(node)) =>
        /\ ~evaluated
        /\ pc = "done" =>
              /\ outcome.kind = "raise" /\ outcome.exc = "ValueError"
              /\ BadName(FirstViolation)
                    => outcome = Raise("ValueError", DisallowedName, FirstViolation.id)
              /\ ~BadName(FirstViolation)
                    => outcome.msg \in {DisallowedSyntax, DisallowedCall}

\* A name that bindings binds, but ALLOWED_NAMES does not hold, was rejected.
C5_Witness ==
    /\ pc = "done"
    /\ outcome.kind = "raise" /\ outcome.msg = DisallowedName
    /\ Bound(outcome.arg)

\* C6, as claimed: an expression with a call whose target is not the name of
\* a function of ALLOWED_FUNCS fails with the call error, and no call is
\* executed.
C6_CallRestricted ==
    Parsed /\ (\E node \in Nodes : BadCall(node)) =>
        /\ ~evaluated
        /\ pc = "done" => outcome = Raise("ValueError", DisallowedCall, "")

\* C6, amended: such an expression is never evaluated and fails with one of
\* the three validation errors: the call error if the call is the first
\* node of the walk that fails a check, and otherwise "Disallowed syntax" or
\* "Disallowed name" for the node that comes earlier in the walk.
C6_CallRestrictedAmended ==
    Parsed /\ (\E node \in Nodes : BadCall(node)) =>
        /\ ~evaluated
        /\ pc = "done" =>
              /\ outcome.kind = "raise" /\ outcome.exc = "ValueError"
              /\ BadCall(FirstViolation)
                    => outcome = Raise("ValueError", DisallowedCall, "")
              /\ ~BadCall(FirstViolation)
                    => outcome.msg \in {DisallowedSyntax, DisallowedName}

\* A call of an allowed variable name was rejected.
C6_Witness ==
    /\ pc = "done"
    /\ outcome = Raise("ValueError", DisallowedCall, "")
    /\ \E node \in Nodes :
          BadCall(node) /\ node.kids[1].kind = "Name"
                        /\ node.kids[1].id \in ALLOWED_NAMES

\* C9: validation is all-or-nothing and precedes evaluation.  The evaluation
\* step is taken only when the walk has visited every node of the tree and
\* no node failed a check; and when some node of the tree fails a check,
\* the expression is never evaluated and the call raises.
C9_ValidationFirst ==
    /\ [][evaluated' /\ ~evaluated =>
            /\ todo = <<>>
            /\ {visited[j] : j \in 1..Len(visited)} = AllPaths(tree, <<>>)
            /\ \A node \in Nodes : ~Violates(node)]_vars
    /\ [](Parsed /\ (\E node \in Nodes : Violates(node)) =>
            /\ ~evaluated
            /\ pc = "done" => outcome.kind = "raise")

\* An expression with nested nodes passed validation and was evaluated.
C9_Witness ==
    /\ pc = "done"
    /\ evaluated
    /\ \E p \in AllPaths(tree, <<>>) : Len(p) >= 3
    /\ Len(visited) = Cardinality(AllPaths(tree, <<>>))

ParseError == Raise("SyntaxError", "", "")

IsValidationError(o) ==
    /\ o.kind = "raise" /\ o.exc = "ValueError"
    /\ o.msg \in {DisallowedSyntax, DisallowedName, DisallowedCall}

IsBoolean(o) == o.kind = "return" /\ o.value \in BOOLEAN

EvaluationErrors == {"NameError", "TypeError", "ZeroDivisionError"}

=============================================================================
